---- MODULE Spec2Model ----
(***************************************************************************)
(* A model of src/checker/status.rs: the OpenWrt interface-status fetcher. *)
(*                                                                         *)
(* Text is modelled as follows.                                            *)
(*  - Byte strings (the child's stderr, the string payloads of its stdout) *)
(*    and Rust Strings are sequences of integers: bytes, resp. Unicode     *)
(*    scalar values.                                                       *)
(*  - The child's stdout is a JSON document whose structural bytes are     *)
(*    ASCII and whose string payloads are arbitrary bytes, or a document   *)
(*    that is not JSON at all.  A JSON value is a tagged record            *)
(*    [t |-> "null"], [t |-> "bool", b], [t |-> "num", n], [t |-> "str", s]*)
(*    [t |-> "arr", a] (a sequence) or [t |-> "obj", o] (a function from   *)
(*    member names to values).                                             *)
(*  - Configuration strings, argument strings and the output of            *)
(*    format_uptime are TLA+ strings.                                      *)
(***************************************************************************)
EXTENDS Integers, Sequences, FiniteSets, TLC

VARIABLES
    pc,         \* position inside fetch_interface_status (or the driver's position)
    config,     \* the OpenWrtConfig in use
    args,       \* the argument vector handed to ssh
    output,     \* std::process::Output of the child: status, stdout, stderr
    text,       \* the decoded stdout (a String), once decoding succeeded
    result,     \* the Result<InterfaceStatus, AppError> of the call
    trace,      \* history: the stages the current call has run, in order
    spawns,     \* history: how often the current call has spawned ssh
    observed,   \* history: <<tag, kind, failing stage>> of every error returned so far
    reser,      \* the re-serialized wire text (serde_json::to_string)
    reparsed,   \* the result of parsing reser again
    formatted   \* the String returned by format_uptime

vars == <<pc, config, args, output, text, result, trace, spawns, observed,
          reser, reparsed, formatted>>

(***************************************************************************)
(* Bounds of the model.                                                    *)
(***************************************************************************)
MaxStderrLen == 2      \* longest enumerated stderr byte string
MaxPayloadLen == 2     \* longest enumerated stdout string payload
MaxAbsent == 1         \* most members removed from the full wire object (fetch)
MaxAbsentParse == 2    \* most members removed from the full wire object (parse)
MaxUptime == 90061     \* largest uptime handed to format_uptime
MaxPort == 23          \* largest configured port enumerated

Nothing == [some |-> FALSE]
Some(v) == [some |-> TRUE, v |-> v]

(***************************************************************************)
(* OpenWrtConfig and the ssh argument vector.                              *)
(***************************************************************************)
DefaultPort == 22

DefaultConfig ==
    [host |-> "192.168.1.1", port |-> DefaultPort, username |-> "root",
     interface |-> "wan", private_key_path |-> Some("~/.ssh/local")]

Configs ==
    [host : {"192.168.1.1", "router.lan", "10.0.0.1"},
     port : DefaultPort .. MaxPort,
     username : {"root", "admin"},
     interface : {"wan", "lan", "wan6"},
     private_key_path : {Nothing, Some("~/.ssh/local"), Some("/etc/key")}]

RemoteCommand(c) == "ubus call network.interface." \o c.interface \o " status"

HostKeyOptions ==
    <<"-o", "StrictHostKeyChecking=no", "-o", "UserKnownHostsFile=/dev/null">>

IdentityArgs(c) ==
    IF c.private_key_path.some THEN <<"-i", c.private_key_path.v>> ELSE <<>>

Destination(c) == c.username \o "@" \o c.host

\* Variant: the identity file pushed after the destination
BuildArgsKeyLast(c) ==
    HostKeyOptions \o <<Destination(c)>> \o IdentityArgs(c) \o <<RemoteCommand(c)>>

BuildArgs(c) ==
    HostKeyOptions \o IdentityArgs(c) \o <<Destination(c)>> \o <<RemoteCommand(c)>>

(***************************************************************************)
(* UTF-8.  The enumerated bytes are 'a', the two bytes of U+00E9 and 0xFF: *)
(* one-byte and two-byte sequences, a stray lead byte, a stray             *)
(* continuation byte and a byte that is never valid.  Lead bytes of three- *)
(* and four-byte sequences are not enumerated and count as invalid here.   *)
(***************************************************************************)
ReplacementChar == 65533

Bytes == {97, 195, 169, 255}

IsAscii(b) == b < 128
IsLead2(b) == b >= 194 /\ b <= 223
IsCont(b) == b >= 128 /\ b <= 191

RECURSIVE Utf8Valid(_)
Utf8Valid(bs) ==
    IF bs = <<>> THEN TRUE
    ELSE IF IsAscii(Head(bs)) THEN Utf8Valid(Tail(bs))
    ELSE IF IsLead2(Head(bs)) /\ Len(bs) >= 2 /\ IsCont(bs[2])
         THEN Utf8Valid(Tail(Tail(bs)))
    ELSE FALSE

\* The scalar values of a byte string; every maximal invalid part (here: one
\* byte) becomes U+FFFD, as String::from_utf8_lossy does.
RECURSIVE Utf8Lossy(_)
Utf8Lossy(bs) ==
    IF bs = <<>> THEN <<>>
    ELSE IF IsAscii(Head(bs)) THEN <<Head(bs)>> \o Utf8Lossy(Tail(bs))
    ELSE IF IsLead2(Head(bs)) /\ Len(bs) >= 2 /\ IsCont(bs[2])
         THEN <<(Head(bs) - 192) * 64 + (bs[2] - 128)>> \o Utf8Lossy(Tail(Tail(bs)))
    ELSE <<ReplacementChar>> \o Utf8Lossy(Tail(bs))

RECURSIVE SeqsUpTo(_, _)
SeqsUpTo(S, n) ==
    IF n = 0 THEN {<<>>}
    ELSE LET shorter == SeqsUpTo(S, n - 1)
         IN  shorter \cup {Append(s, x) : s \in shorter, x \in S}

(***************************************************************************)
(* InterfaceStatus::format_uptime.                                         *)
(***************************************************************************)
SecsPerDay == 86400
SecsPerHour == 3600
SecsPerMinute == 60

Digit(n) == CASE n = 0 -> "0" [] n = 1 -> "1" [] n = 2 -> "2" [] n = 3 -> "3"
              [] n = 4 -> "4" [] n = 5 -> "5" [] n = 6 -> "6" [] n = 7 -> "7"
              [] n = 8 -> "8" [] n = 9 -> "9"

\* format!("{}", n) for an unsigned n
RECURSIVE Display(_)
Display(n) == IF n < 10 THEN Digit(n) ELSE Display(n \div 10) \o Digit(n % 10)

days(u) == u \div SecsPerDay
\* Variant: the hours not reduced modulo a day
hoursNoWrap(u) == u \div SecsPerHour
hours(u) == (u % SecsPerDay) \div SecsPerHour
minutes(u) == (u % SecsPerHour) \div SecsPerMinute
seconds(u) == u % SecsPerMinute

format_uptime(self) ==
    LET u == self.uptime
    IN  IF days(u) > 0
        THEN Display(days(u)) \o "d " \o Display(hours(u)) \o "h "
                 \o Display(minutes(u)) \o "m " \o Display(seconds(u)) \o "s"
        ELSE IF hours(u) > 0
        THEN Display(hours(u)) \o "h " \o Display(minutes(u)) \o "m "
                 \o Display(seconds(u)) \o "s"
        ELSE IF minutes(u) > 0
        THEN Display(minutes(u)) \o "m " \o Display(seconds(u)) \o "s"
        ELSE Display(seconds(u)) \o "s"

(***************************************************************************)
(* JSON values and the wire shape of the data model.                       *)
(***************************************************************************)
JNull == [t |-> "null"]
JBool(b) == [t |-> "bool", b |-> b]
JNum(n) == [t |-> "num", n |-> n]
JStr(s) == [t |-> "str", s |-> s]
JArr(a) == [t |-> "arr", a |-> a]
JObj(o) == [t |-> "obj", o |-> o]

Remove(o, A) == [k \in (DOMAIN o) \ A |-> o[k]]
With(o, k, v) == [x \in (DOMAIN o) \cup {k} |-> IF x = k THEN v ELSE o[x]]

Ok(v) == [ok |-> TRUE, v |-> v]
Fail(d) == [ok |-> FALSE, diag |-> d]
MissingField(k) == [err |-> "missing field", field |-> k]
InvalidType == [err |-> "invalid type"]
InvalidValue == [err |-> "invalid value"]
SyntaxError == [err |-> "syntax"]
InvalidLength == [err |-> "invalid length"]

\* The fields of each struct in declaration order, the member name each is
\* read from and written to, and its type.
Ipv4AddressFields == <<"address", "mask">>
RouteFields == <<"target", "mask", "nexthop", "source">>
InterfaceStatusFields ==
    <<"up", "pending", "available", "autostart", "dynamic", "uptime",
      "l3_device", "proto", "updated", "metric", "dns_metric", "delegation",
      "ipv4_address", "ipv6_address", "ipv6_prefix", "ipv6_prefix_assignment",
      "route", "dns_server", "dns_search", "neighbors", "inactive", "data">>

\* Variant: no #[serde(rename)] on any field
WireNameNoRename(f) == f

WireName(f) ==
    CASE f = "ipv4_address" -> "ipv4-address"
      [] f = "ipv6_address" -> "ipv6-address"
      [] f = "ipv6_prefix" -> "ipv6-prefix"
      [] f = "ipv6_prefix_assignment" -> "ipv6-prefix-assignment"
      [] f = "dns_server" -> "dns-server"
      [] f = "dns_search" -> "dns-search"
      [] OTHER -> f

Ipv4AddressType(f) == IF f = "mask" THEN "u8" ELSE "String"

RouteType(f) ==
    CASE f = "mask" -> "u8"
      [] f = "source" -> "Option<String>"
      [] OTHER -> "String"

InterfaceStatusType(f) ==
    CASE f \in {"up", "pending", "available", "autostart", "dynamic", "delegation"} -> "bool"
      [] f = "uptime" -> "u64"
      [] f \in {"l3_device", "proto"} -> "Option<String>"
      [] f \in {"metric", "dns_metric"} -> "i32"
      [] f = "ipv4_address" -> "Vec<Ipv4Address>"
      [] f = "route" -> "Vec<Route>"
      [] f = "inactive" -> "Option<Value>"
      [] f = "data" -> "Value"
      [] OTHER -> "Vec<String>"

StructFields(ty) ==
    CASE ty = "Ipv4Address" -> Ipv4AddressFields
      [] ty = "Route" -> RouteFields
      [] ty = "InterfaceStatus" -> InterfaceStatusFields

FieldWire(ty, f) == IF ty = "InterfaceStatus" THEN WireName(f) ELSE f

FieldType(ty, f) ==
    CASE ty = "Ipv4Address" -> Ipv4AddressType(f)
      [] ty = "Route" -> RouteType(f)
      [] ty = "InterfaceStatus" -> InterfaceStatusType(f)

IsOption(ty) == ty \in {"Option<String>", "Option<Value>"}
IsVec(ty) == ty \in {"Vec<String>", "Vec<Ipv4Address>", "Vec<Route>"}
IsStruct(ty) == ty \in {"Ipv4Address", "Route", "InterfaceStatus"}

ElemType(ty) ==
    CASE ty = "Vec<String>" -> "String"
      [] ty = "Vec<Ipv4Address>" -> "Ipv4Address"
      [] ty = "Vec<Route>" -> "Route"
      [] ty = "Option<String>" -> "String"
      [] ty = "Option<Value>" -> "Value"

MaxU8 == 255

Min(S) == CHOOSE x \in S : \A y \in S : x <= y

\* Variant: #[serde(default)] on the Vec fields
AbsentDefaultsAll(ty, k) ==
    IF IsOption(ty) THEN Ok(Nothing)
    ELSE IF IsVec(ty) THEN Ok(<<>>)
    ELSE Fail(MissingField(k))

\* Variant: #[serde(default)] on the structs
AbsentFieldDefault(ty, k) ==
    CASE IsOption(ty) -> Ok(Nothing)
      [] IsVec(ty) -> Ok(<<>>)
      [] ty = "bool" -> Ok(FALSE)
      [] ty \in {"u64", "u8", "i32"} -> Ok(0)
      [] ty = "String" -> Ok(<<>>)
      [] ty = "Value" -> Ok(JNull)

\* What the derived Deserialize does with a field whose member is absent
AbsentField(ty, k) ==
    IF IsOption(ty) THEN Ok(Nothing) ELSE Fail(MissingField(k))

\* Variant: null handed on to T
DeOptionNullFails(v, inner) ==
    IF inner.ok THEN Ok(Some(inner.v)) ELSE inner

\* Deserialize for Option<T>, given the member's value and T's result for it
DeOption(v, inner) ==
    IF v.t = "null" THEN Ok(Nothing)
    ELSE IF inner.ok THEN Ok(Some(inner.v)) ELSE inner

\* <T as Deserialize>::deserialize on a JSON value.  Members of an object are
\* visited in the order of the struct's declaration (the order in which the
\* remote system writes them); the first failing member ends the visit, and
\* absent members are looked at only after the visit.
RECURSIVE De(_, _)
De(ty, v) ==
    CASE ty = "bool" -> IF v.t = "bool" THEN Ok(v.b) ELSE Fail(InvalidType)
      [] ty = "u64" -> IF v.t # "num" THEN Fail(InvalidType)
                       ELSE IF v.n < 0 THEN Fail(InvalidValue) ELSE Ok(v.n)
      [] ty = "u8" -> IF v.t # "num" THEN Fail(InvalidType)
                      ELSE IF v.n < 0 \/ v.n > MaxU8 THEN Fail(InvalidValue) ELSE Ok(v.n)
      [] ty = "i32" -> IF v.t = "num" THEN Ok(v.n) ELSE Fail(InvalidType)
      [] ty = "String" -> IF v.t = "str" THEN Ok(v.s) ELSE Fail(InvalidType)
      [] ty = "Value" -> Ok(v)
      [] IsOption(ty) -> DeOption(v, De(ElemType(ty), v))
      [] IsVec(ty) ->
            IF v.t # "arr" THEN Fail(InvalidType)
            ELSE LET r == [i \in 1..Len(v.a) |-> De(ElemType(ty), v.a[i])]
                     bad == {i \in 1..Len(v.a) : ~r[i].ok}
                 IN  IF bad # {} THEN r[Min(bad)]
                     ELSE Ok([i \in 1..Len(v.a) |-> r[i].v])
      [] IsStruct(ty) ->
            IF v.t = "arr"
            THEN \* a struct is also read from an array of its fields in order
                 LET fs == StructFields(ty)
                     r == [i \in 1..Len(v.a) |->
                             IF i <= Len(fs) THEN De(FieldType(ty, fs[i]), v.a[i])
                             ELSE Fail(InvalidLength)]
                     bad == {i \in 1..Len(v.a) : ~r[i].ok}
                     idx(f) == CHOOSE i \in 1..Len(fs) : fs[i] = f
                 IN  IF bad # {} THEN r[Min(bad)]
                     ELSE IF Len(v.a) < Len(fs) THEN Fail(InvalidLength)
                     ELSE Ok([f \in {fs[i] : i \in 1..Len(fs)} |-> r[idx(f)].v])
            ELSE IF v.t # "obj" THEN Fail(InvalidType)
            ELSE LET fs == StructFields(ty)
                     r == [i \in 1..Len(fs) |->
                             LET k == FieldWire(ty, fs[i])
                             IN  IF k \in DOMAIN v.o
                                 THEN De(FieldType(ty, fs[i]), v.o[k])
                                 ELSE AbsentField(FieldType(ty, fs[i]), k)]
                     badPresent == {i \in 1..Len(fs) :
                                      FieldWire(ty, fs[i]) \in DOMAIN v.o /\ ~r[i].ok}
                     bad == {i \in 1..Len(fs) : ~r[i].ok}
                     idx(f) == CHOOSE i \in 1..Len(fs) : fs[i] = f
                 IN  IF badPresent # {} THEN r[Min(badPresent)]
                     ELSE IF bad # {} THEN r[Min(bad)]
                     ELSE Ok([f \in {fs[i] : i \in 1..Len(fs)} |-> r[idx(f)].v])

\* serde_json::from_str::<InterfaceStatus> on a decoded text.
from_str(t) ==
    IF t.json THEN De("InterfaceStatus", t.doc) ELSE Fail(SyntaxError)

\* <T as Serialize>::serialize to a JSON value.
RECURSIVE Ser(_, _)
Ser(ty, x) ==
    CASE ty = "bool" -> JBool(x)
      [] ty \in {"u64", "u8", "i32"} -> JNum(x)
      [] ty = "String" -> JStr(x)
      [] ty = "Value" -> x
      [] IsOption(ty) -> IF x.some THEN Ser(ElemType(ty), x.v) ELSE JNull
      [] IsVec(ty) -> JArr([i \in 1..Len(x) |-> Ser(ElemType(ty), x[i])])
      [] IsStruct(ty) ->
            LET fs == StructFields(ty)
                field(k) == CHOOSE f \in {fs[i] : i \in 1..Len(fs)} : FieldWire(ty, f) = k
            IN  JObj([k \in {FieldWire(ty, fs[i]) : i \in 1..Len(fs)} |->
                        Ser(FieldType(ty, field(k)), x[field(k)])])

\* serde_json::to_string(&status)
to_string(status) == [json |-> TRUE, doc |-> Ser("InterfaceStatus", status)]

(***************************************************************************)
(* Decoding the child's stdout: String::from_utf8.                         *)
(***************************************************************************)
RECURSIVE PayloadsValid(_)
PayloadsValid(v) ==
    CASE v.t = "str" -> Utf8Valid(v.s)
      [] v.t = "arr" -> \A i \in 1..Len(v.a) : PayloadsValid(v.a[i])
      [] v.t = "obj" -> \A k \in DOMAIN v.o : PayloadsValid(v.o[k])
      [] OTHER -> TRUE

RECURSIVE DecodePayloads(_)
DecodePayloads(v) ==
    CASE v.t = "str" -> JStr(Utf8Lossy(v.s))
      [] v.t = "arr" -> JArr([i \in 1..Len(v.a) |-> DecodePayloads(v.a[i])])
      [] v.t = "obj" -> JObj([k \in DOMAIN v.o |-> DecodePayloads(v.o[k])])
      [] OTHER -> v

StdoutValid(out) == IF out.json THEN PayloadsValid(out.doc) ELSE Utf8Valid(out.raw)

\* The String of a valid stdout
StdoutText(out) ==
    IF out.json THEN [json |-> TRUE, doc |-> DecodePayloads(out.doc)]
    ELSE [json |-> FALSE, raw |-> Utf8Lossy(out.raw)]

from_utf8(out) ==
    IF StdoutValid(out) THEN Ok(StdoutText(out)) ELSE Fail("FromUtf8Error")

(***************************************************************************)
(* AppError and its conversions.                                           *)
(***************************************************************************)
Err(e) == [ok |-> FALSE, err |-> e]
NoResult == [state |-> "pending"]
NoOutput == [state |-> "none"]
NoText == [state |-> "none"]

AppErrorJson(e) == [tag |-> "Json", kind |-> "-", e |-> e]
AppErrorIo(kind) == [tag |-> "Io", kind |-> kind]
AppErrorOther(kind, payload) == [tag |-> "Other", kind |-> kind, msg |-> payload]

\* impl From<serde_json::Error> for AppError
FromJsonError(e) == AppErrorJson(e)

\* impl From<std::io::Error> for AppError
FromIoError(kind) == AppErrorIo(kind)

\* Variant: ErrorKind::Other in place of InvalidData
FromUtf8ErrorKindOther(e) == AppErrorOther("Other", e)
\* impl From<FromUtf8Error> for AppError
FromUtf8Error(e) == AppErrorOther("InvalidData", e)

\* "SSH command failed: "
FailedPrefix ==
    <<83, 83, 72, 32, 99, 111, 109, 109, 97, 110, 100, 32,
      102, 97, 105, 108, 101, 100, 58, 32>>

\* Variant: the stderr text alone
CommandFailedBare(stderr) == AppErrorOther("Other", Utf8Lossy(stderr))
\* The error of a non-zero exit status
CommandFailed(stderr) == AppErrorOther("Other", FailedPrefix \o Utf8Lossy(stderr))

\* The errors std::process can report when ssh cannot be run
IoKinds == {"NotFound", "PermissionDenied"}

(***************************************************************************)
(* What the child may write.                                               *)
(***************************************************************************)
A1 == <<97>>

\* "no such interface"
NoSuchInterface ==
    <<110, 111, 32, 115, 117, 99, 104, 32, 105, 110, 116, 101, 114, 102, 97, 99, 101>>

RECURSIVE SubsetsUpTo(_, _)
SubsetsUpTo(S, n) ==
    IF n = 0 THEN {{}}
    ELSE LET smaller == SubsetsUpTo(S, n - 1)
         IN  smaller \cup {A \cup {x} : A \in smaller, x \in S}

FullIpv4Address == (("address" :> JStr(A1)) @@ ("mask" :> JNum(24)))

FullRoute ==
    (("target" :> JStr(A1)) @@ ("mask" :> JNum(0)) @@ ("nexthop" :> JStr(A1))
        @@ ("source" :> JStr(A1)))

\* A complete status object as the remote system writes it
FullObject ==
    [up |-> JBool(TRUE), pending |-> JBool(FALSE), available |-> JBool(TRUE),
     autostart |-> JBool(TRUE), dynamic |-> JBool(FALSE), uptime |-> JNum(65),
     l3_device |-> JStr(A1), proto |-> JStr(A1), updated |-> JArr(<<JStr(A1)>>),
     metric |-> JNum(0), dns_metric |-> JNum(-1), delegation |-> JBool(TRUE),
     route |-> JArr(<<JObj(FullRoute)>>), neighbors |-> JArr(<<>>),
     inactive |-> JObj(("route" :> JArr(<<>>))),
     data |-> JObj(("leasetime" :> JNum(3600)) @@ ("hostname" :> JStr(A1)))]
    @@ ("ipv4-address" :> JArr(<<JObj(FullIpv4Address)>>))
    @@ ("ipv6-address" :> JArr(<<JStr(A1)>>))
    @@ ("ipv6-prefix" :> JArr(<<>>))
    @@ ("ipv6-prefix-assignment" :> JArr(<<>>))
    @@ ("dns-server" :> JArr(<<JStr(A1), JStr(A1)>>))
    @@ ("dns-search" :> JArr(<<>>))

WireKeys == DOMAIN FullObject

CollectionKeys ==
    {"updated", "ipv4-address", "ipv6-address", "ipv6-prefix",
     "ipv6-prefix-assignment", "route", "dns-server", "dns-search", "neighbors"}

OptionalKeys == {"l3_device", "proto", "inactive"}

\* Member names the data model does not read
OtherKeys ==
    {"l3Device", "dnsMetric", "ipv4Address", "ipv4_address", "ipv6Address",
     "ipv6_address", "ipv6Prefix", "ipv6_prefix", "ipv6PrefixAssignment",
     "ipv6_prefix_assignment", "dnsServer", "dns_server", "dnsSearch",
     "dns_search", "device"}

\* The value a member of that spelling would carry
OtherValue(k) ==
    CASE k = "l3Device" -> JStr(<<97, 97>>)
      [] k = "dnsMetric" -> JNum(7)
      [] k = "device" -> JStr(A1)
      [] k \in {"ipv4Address", "ipv4_address"} -> JArr(<<>>)
      [] OTHER -> JArr(<<JStr(<<97, 97>>)>>)

Doc(o) == [json |-> TRUE, doc |-> JObj(o)]

AbsentDocs(n) == {Doc(Remove(FullObject, A)) : A \in SubsetsUpTo(WireKeys, n)}

NestedDocs ==
    {Doc(With(FullObject, "ipv4-address", JArr(<<JObj(Remove(FullIpv4Address, A))>>))) :
        A \in SUBSET DOMAIN FullIpv4Address}
    \cup
    {Doc(With(FullObject, "route", JArr(<<JObj(FullRoute), JObj(Remove(FullRoute, A))>>))) :
        A \in SUBSET DOMAIN FullRoute}

EmptyCollectionsDoc ==
    Doc([k \in WireKeys |-> IF k \in CollectionKeys THEN JArr(<<>>) ELSE FullObject[k]])

WrongValues == {JNull, JNum(-1), JNum(256), JStr(A1)}

WrongDocs == {Doc(With(FullObject, k, v)) : k \in WireKeys, v \in WrongValues}

PayloadDocs ==
    {Doc(With(FullObject, "proto", JStr(bs))) : bs \in SeqsUpTo(Bytes, MaxPayloadLen)}

NotJson == {[json |-> FALSE, raw |-> bs] : bs \in {<<>>, A1, <<255>>}}

OtherKeyDocs(n) ==
    {Doc(With(Remove(FullObject, A), k, OtherValue(k))) :
        A \in SubsetsUpTo(WireKeys, n), k \in OtherKeys}

Stdouts ==
    AbsentDocs(MaxAbsent) \cup NestedDocs \cup {EmptyCollectionsDoc} \cup WrongDocs
        \cup PayloadDocs \cup NotJson

Stderrs == SeqsUpTo(Bytes, MaxStderrLen) \cup {NoSuchInterface}

Outputs ==
    [success : {TRUE}, stdout : Stdouts, stderr : {<<>>, A1}]
    \cup
    [success : {FALSE},
     stdout : {Doc(FullObject), Doc(With(FullObject, "proto", JStr(<<255>>))),
               [json |-> FALSE, raw |-> <<>>]},
     stderr : Stderrs]

(***************************************************************************)
(* fetch_interface_status, one action per stage.                           *)
(***************************************************************************)
Init ==
    /\ pc = "start"
    /\ config = DefaultConfig
    /\ args = <<>>
    /\ output = NoOutput
    /\ text = NoText
    /\ result = NoResult
    /\ trace = <<>>
    /\ spawns = 0
    /\ observed = {}
    /\ reser = NoText
    /\ reparsed = NoResult
    /\ formatted = ""

Return(r, stage) ==
    /\ result' = r
    /\ pc' = "done"
    /\ observed' = IF r.ok THEN observed
                   ELSE observed \cup {<<r.err.tag, r.err.kind, stage>>}

\* let config = OpenWrtConfig::default(); ... args.push(command);
BuildCommand ==
    /\ pc = "start"
    /\ config' = DefaultConfig
    /\ args' = BuildArgs(DefaultConfig)
    /\ pc' = "spawn"
    /\ UNCHANGED <<output, text, result, trace, spawns, observed, reser, reparsed,
                   formatted>>

\* Command::new("ssh").args(&args).output().await? when ssh cannot be run
SpawnFails ==
    /\ pc = "spawn"
    /\ trace' = Append(trace, "spawn")
    /\ spawns' = spawns + 1
    /\ \E k \in IoKinds : Return(Err(FromIoError(k)), "spawn")
    /\ UNCHANGED <<config, args, output, text, reser, reparsed, formatted>>

\* ... and when the child ran to its end
SpawnCompletes ==
    /\ pc = "spawn"
    /\ trace' = Append(trace, "spawn")
    /\ spawns' = spawns + 1
    /\ \E out \in Outputs : output' = out
    /\ pc' = "check"
    /\ UNCHANGED <<config, args, text, result, observed, reser, reparsed, formatted>>

\* Variant: the exit status ignored
CheckStatusNoReturn ==
    /\ pc = "check"
    /\ trace' = Append(trace, "check")
    /\ pc' = "decode"
    /\ UNCHANGED <<config, args, output, text, result, spawns, observed, reser,
                   reparsed, formatted>>

\* if !output.status.success() { return Err(..) }
CheckStatus ==
    /\ pc = "check"
    /\ trace' = Append(trace, "check")
    /\ IF output.success
       THEN pc' = "decode" /\ UNCHANGED <<result, observed>>
       ELSE Return(Err(CommandFailed(output.stderr)), "check")
    /\ UNCHANGED <<config, args, output, text, spawns, reser, reparsed, formatted>>

\* Variant: stdout decoded as stderr is, with String::from_utf8_lossy
DecodeLossy ==
    /\ pc = "decode"
    /\ trace' = Append(trace, "decode")
    /\ text' = StdoutText(output.stdout)
    /\ pc' = "parse"
    /\ UNCHANGED <<config, args, output, result, spawns, observed, reser, reparsed,
                   formatted>>

\* let stdout = String::from_utf8(output.stdout)?;
Decode ==
    /\ pc = "decode"
    /\ trace' = Append(trace, "decode")
    /\ LET r == from_utf8(output.stdout)
       IN  IF r.ok
           THEN text' = r.v /\ pc' = "parse" /\ UNCHANGED <<result, observed>>
           ELSE Return(Err(FromUtf8Error(r.diag)), "decode") /\ UNCHANGED text
    /\ UNCHANGED <<config, args, output, spawns, reser, reparsed, formatted>>

\* let status: InterfaceStatus = serde_json::from_str(&stdout)?; Ok(status)
Parse ==
    /\ pc = "parse"
    /\ trace' = Append(trace, "parse")
    /\ LET r == from_str(text)
       IN  Return(IF r.ok THEN Ok(r.v) ELSE Err(FromJsonError(r.diag)), "parse")
    /\ UNCHANGED <<config, args, output, text, spawns, reser, reparsed, formatted>>

\* The caller calls fetch_interface_status again
CallAgain ==
    /\ pc = "done"
    /\ pc' = "start"
    /\ args' = <<>>
    /\ output' = NoOutput
    /\ text' = NoText
    /\ result' = NoResult
    /\ trace' = <<>>
    /\ spawns' = 0
    /\ UNCHANGED <<config, observed, reser, reparsed, formatted>>

Next ==
    \/ BuildCommand
    \/ SpawnFails
    \/ SpawnCompletes
    \/ CheckStatus
    \/ Decode
    \/ Parse
    \/ CallAgain

Spec == Init /\ [][Next]_vars

(***************************************************************************)
(* The derived Deserialize and Serialize on their own: a wire text is      *)
(* parsed, the status is written back with serde_json::to_string, and the  *)
(* written text is parsed again.                                           *)
(***************************************************************************)
ParseTexts ==
    {StdoutText(d) :
        d \in {x \in AbsentDocs(MaxAbsentParse) \cup NestedDocs \cup {EmptyCollectionsDoc}
                      \cup WrongDocs \cup PayloadDocs \cup NotJson
                      \cup OtherKeyDocs(MaxAbsent) : StdoutValid(x)}}

InitParse ==
    /\ pc = "text"
    /\ config = DefaultConfig
    /\ args = <<>>
    /\ output = NoOutput
    /\ text \in ParseTexts
    /\ result = NoResult
    /\ trace = <<>>
    /\ spawns = 0
    /\ observed = {}
    /\ reser = NoText
    /\ reparsed = NoResult
    /\ formatted = ""

\* serde_json::from_str::<InterfaceStatus>(&text)
ParseText ==
    /\ pc = "text"
    /\ LET r == from_str(text)
       IN  result' = IF r.ok THEN Ok(r.v) ELSE Err(FromJsonError(r.diag))
    /\ pc' = "parsed"
    /\ UNCHANGED <<config, args, output, text, trace, spawns, observed, reser,
                   reparsed, formatted>>

\* serde_json::to_string(&status)
Serialize ==
    /\ pc = "parsed"
    /\ result.ok
    /\ reser' = to_string(result.v)
    /\ pc' = "serialized"
    /\ UNCHANGED <<config, args, output, text, result, trace, spawns, observed,
                   reparsed, formatted>>

\* serde_json::from_str::<InterfaceStatus>(&reser)
Reparse ==
    /\ pc = "serialized"
    /\ LET r == from_str(reser)
       IN  reparsed' = IF r.ok THEN Ok(r.v) ELSE Err(FromJsonError(r.diag))
    /\ pc' = "reparsed"
    /\ UNCHANGED <<config, args, output, text, result, trace, spawns, observed,
                   reser, formatted>>

NextParse == ParseText \/ Serialize \/ Reparse

SpecParse == InitParse /\ [][NextParse]_vars

(***************************************************************************)
(* The argument vector as a function of the configuration.                 *)
(***************************************************************************)
InitArgs ==
    /\ pc = "config"
    /\ config \in Configs
    /\ args = <<>>
    /\ output = NoOutput
    /\ text = NoText
    /\ result = NoResult
    /\ trace = <<>>
    /\ spawns = 0
    /\ observed = {}
    /\ reser = NoText
    /\ reparsed = NoResult
    /\ formatted = ""

\* let command = format!(..); let mut args = vec![..]; ... args.push(command);
BuildCommandFor ==
    /\ pc = "config"
    /\ args' = BuildArgs(config)
    /\ pc' = "built"
    /\ UNCHANGED <<config, output, text, result, trace, spawns, observed, reser,
                   reparsed, formatted>>

NextArgs == BuildCommandFor

SpecArgs == InitArgs /\ [][NextArgs]_vars

(***************************************************************************)
(* format_uptime on a status.                                              *)
(***************************************************************************)
FullStatus == from_str(StdoutText(Doc(FullObject))).v

InitUptime ==
    /\ pc = "status"
    /\ config = DefaultConfig
    /\ args = <<>>
    /\ output = NoOutput
    /\ text = NoText
    /\ \E u \in 0..MaxUptime : result = Ok([FullStatus EXCEPT !.uptime = u])
    /\ trace = <<>>
    /\ spawns = 0
    /\ observed = {}
    /\ reser = NoText
    /\ reparsed = NoResult
    /\ formatted = ""

\* status.format_uptime()
FormatUptime ==
    /\ pc = "status"
    /\ formatted' = format_uptime(result.v)
    /\ pc' = "formatted"
    /\ UNCHANGED <<config, args, output, text, result, trace, spawns, observed,
                   reser, reparsed>>

NextUptime == FormatUptime

SpecUptime == InitUptime /\ [][NextUptime]_vars

(***************************************************************************)
(* Properties.                                                             *)
(***************************************************************************)
Ran(stage) == \E i \in 1..Len(trace) : trace[i] = stage
Returned == pc = "done"
ExitedNonZero == Returned /\ Ran("check") /\ ~output.success
StageOrder == <<"spawn", "check", "decode", "parse">>
StatusFieldNames == {InterfaceStatusFields[i] : i \in 1..Len(InterfaceStatusFields)}

\* "SSH command failed: no such interface"
FailedNoSuchInterface ==
    <<83, 83, 72, 32, 99, 111, 109, 109, 97, 110, 100, 32, 102, 97, 105, 108, 101,
      100, 58, 32, 110, 111, 32, 115, 117, 99, 104, 32, 105, 110, 116, 101, 114,
      102, 97, 99, 101>>

\* C1 as stated: after a non-zero exit status the call returns an error whose
\* text is exactly the captured standard-error text.
C1_ExactStderr ==
    ExitedNonZero =>
        /\ ~result.ok
        /\ result.err.msg = Utf8Lossy(output.stderr)

\* C1 as amended: after a non-zero exit status the call returns
\* AppError::Other wrapping an io::Error of kind Other whose text is
\* "SSH command failed: " followed by the standard-error text, decoded with
\* every invalid byte sequence replaced by U+FFFD.
C1_PrefixedStderr ==
    ExitedNonZero =>
        /\ ~result.ok
        /\ result.err.tag = "Other"
        /\ result.err.kind = "Other"
        /\ LET msg == result.err.msg
               n == Len(FailedPrefix)
           IN  /\ Len(msg) >= n
               /\ SubSeq(msg, 1, n) = FailedPrefix
               /\ SubSeq(msg, n + 1, Len(msg)) = Utf8Lossy(output.stderr)
               /\ (\A i \in 1..Len(output.stderr) : output.stderr[i] < 128)
                     => SubSeq(msg, n + 1, Len(msg)) = output.stderr
               /\ output.stderr = NoSuchInterface => msg = FailedNoSuchInterface
               /\ ~Utf8Valid(output.stderr)
                     => \E i \in n + 1 .. Len(msg) : msg[i] = ReplacementChar

C1_Witness ==
    /\ ExitedNonZero
    /\ output.stderr = NoSuchInterface
    /\ ~result.ok
    /\ result.err.msg = FailedNoSuchInterface

\* C2: when the child exits successfully and its stdout is not valid UTF-8,
\* the call fails with the encoding error (AppError::Other of kind
\* InvalidData), no text is produced and the parse stage is never run; a parse
\* stage is always directly preceded by a decode stage.
C2_DecodeBeforeParse ==
    /\ \A i \in 1..Len(trace) :
          trace[i] = "parse" => i > 1 /\ trace[i - 1] = "decode"
    /\ (pc = "parse" \/ Ran("parse")) => text # NoText /\ StdoutValid(output.stdout)
    /\ (Returned /\ Ran("decode") /\ ~StdoutValid(output.stdout)) =>
          /\ ~result.ok
          /\ result.err.tag = "Other"
          /\ result.err.kind = "InvalidData"
          /\ ~Ran("parse")
          /\ text = NoText

C2_Witness ==
    /\ Returned
    /\ output # NoOutput
    /\ output.success
    /\ ~StdoutValid(output.stdout)
    /\ ~result.ok
    /\ trace = <<"spawn", "check", "decode">>

\* C3 as stated: the tag of the returned error alone tells which of the four
\* stages failed: two errors with the same tag come from the same stage.
C3_TagTellsStage ==
    \A p \in observed : \A q \in observed : p[1] = q[1] => p[3] = q[3]

\* C3 as amended: the failures are reported under three tags: Io for a failed
\* spawn, Json for a failed parse, and Other for both a non-zero exit status and
\* an undecodable stdout, which only the kind of the wrapped io::Error tells
\* apart (Other for the exit status, InvalidData for the decoding).
C3_TagAndKindTellStage ==
    /\ \A p \in observed :
          \/ p[1] = "Io" /\ p[3] = "spawn"
          \/ p[1] = "Json" /\ p[3] = "parse"
          \/ p[1] = "Other" /\ p[2] = "Other" /\ p[3] = "check"
          \/ p[1] = "Other" /\ p[2] = "InvalidData" /\ p[3] = "decode"
    /\ (Returned /\ ~result.ok) =>
          <<result.err.tag, result.err.kind, trace[Len(trace)]>> \in observed

C3_Witness ==
    /\ \A st \in {"spawn", "check", "decode", "parse"} : \E p \in observed : p[3] = st
    /\ \E p \in observed : \E q \in observed : p[1] = q[1] /\ p[3] # q[3]

\* C4: a call spawns ssh at most once, runs the stages in the order spawn,
\* exit-status check, decoding, parsing, ends at the first stage that fails with
\* that stage's error, and returns a status only when all four succeeded.
C4_FailFast ==
    /\ spawns <= 1
    /\ Len(trace) <= Len(StageOrder)
    /\ \A i \in 1..Len(trace) : trace[i] = StageOrder[i]
    /\ Returned =>
          /\ spawns = 1
          /\ trace # <<>>
          /\ IF result.ok
             THEN /\ trace = StageOrder
                  /\ output.success
                  /\ StdoutValid(output.stdout)
                  /\ text.json
                  /\ DOMAIN result.v = StatusFieldNames
             ELSE /\ "v" \notin DOMAIN result
                  /\ LET last == trace[Len(trace)]
                     IN  CASE last = "spawn" -> output = NoOutput /\ result.err.tag = "Io"
                           [] last = "check" ->
                                ~output.success /\ result.err.tag = "Other"
                                    /\ result.err.kind = "Other"
                           [] last = "decode" ->
                                output.success /\ ~StdoutValid(output.stdout)
                                    /\ result.err.kind = "InvalidData"
                           [] last = "parse" ->
                                output.success /\ StdoutValid(output.stdout)
                                    /\ result.err.tag = "Json"

C4_Witness ==
    /\ Returned
    /\ ~result.ok
    /\ trace = <<"spawn", "check">>
    /\ output.stdout = Doc(FullObject)

\* The members C6 names as required
RequiredKeys ==
    {"up", "pending", "available", "autostart", "dynamic", "delegation", "uptime",
     "metric", "dns_metric", "data"}

EntryLacks(o, key, required) ==
    /\ key \in DOMAIN o
    /\ o[key].t = "arr"
    /\ \E i \in 1..Len(o[key].a) :
          o[key].a[i].t = "obj" /\ required \ DOMAIN o[key].a[i].o # {}

LacksRequired(o) ==
    \/ RequiredKeys \ DOMAIN o # {}
    \/ EntryLacks(o, "ipv4-address", {"address", "mask"})
    \/ EntryLacks(o, "route", {"target", "mask", "nexthop"})

\* Every member present carries the value of the complete object
SubObject(o) == \A k \in (DOMAIN o) \cap WireKeys : o[k] = FullObject[k]

\* C6: when the decoded text lacks a required member of the status (or of an
\* address or route entry), the call fails with the parse error
\* (AppError::Json) carrying the parser's diagnostic, and returns no status.
C6_MissingRequiredFails ==
    (Returned /\ Ran("parse") /\ text.json /\ text.doc.t = "obj"
        /\ LacksRequired(text.doc.o)) =>
        /\ ~result.ok
        /\ "v" \notin DOMAIN result
        /\ result.err.tag = "Json"
        /\ result.err.e.err \in {"missing field", "invalid type", "invalid value"}
        /\ SubObject(text.doc.o) =>
              /\ result.err.e.err = "missing field"
              /\ result.err.e.field \in WireKeys \ DOMAIN text.doc.o

C6_Witness ==
    /\ Returned
    /\ Ran("parse")
    /\ text.json
    /\ "dns_metric" \notin DOMAIN text.doc.o
    /\ ~result.ok
    /\ result.err.e = MissingField("dns_metric")

\* The field a member name of the wire shape belongs to
KeyField(k) ==
    CASE k = "ipv4-address" -> "ipv4_address"
      [] k = "ipv6-address" -> "ipv6_address"
      [] k = "ipv6-prefix" -> "ipv6_prefix"
      [] k = "ipv6-prefix-assignment" -> "ipv6_prefix_assignment"
      [] k = "dns-server" -> "dns_server"
      [] k = "dns-search" -> "dns_search"
      [] OTHER -> k

Parsed == pc = "parsed" /\ text.json /\ text.doc.t = "obj"
AbsentKeys == WireKeys \ DOMAIN text.doc.o
OnlyAbsences == DOMAIN text.doc.o \subseteq WireKeys /\ SubObject(text.doc.o)

RouteWithoutSource ==
    StdoutText(Doc(With(FullObject, "route",
        JArr(<<JObj(FullRoute), JObj(Remove(FullRoute, {"source"}))>>))))

\* C5 as stated: when only optional or collection members are absent, parsing
\* succeeds and the absent fields are absent, resp. empty.
C5_AbsentTolerated ==
    (Parsed /\ OnlyAbsences /\ AbsentKeys \subseteq OptionalKeys \cup CollectionKeys) =>
        /\ result.ok
        /\ \A k \in AbsentKeys :
              result.v[KeyField(k)] = IF k \in OptionalKeys THEN Nothing ELSE <<>>

\* C5 as amended: when only optional members (l3_device, proto, inactive,
\* Route.source) are absent, parsing succeeds and those fields are None; a
\* collection member must be present: given as an empty array it parses to an
\* empty sequence, and when it is absent parsing fails with a missing-field
\* error naming it.
C5_OptionalTolerated ==
    /\ (Parsed /\ OnlyAbsences /\ AbsentKeys \subseteq OptionalKeys \cup CollectionKeys) =>
          IF AbsentKeys \cap CollectionKeys = {}
          THEN /\ result.ok
               /\ \A k \in AbsentKeys : result.v[KeyField(k)] = Nothing
               /\ \A k \in OptionalKeys \ AbsentKeys : result.v[KeyField(k)].some
          ELSE /\ ~result.ok
               /\ result.err.tag = "Json"
               /\ result.err.e.err = "missing field"
               /\ result.err.e.field \in AbsentKeys \cap CollectionKeys
    /\ (pc = "parsed" /\ text = RouteWithoutSource) =>
          /\ result.ok
          /\ result.v.route[1].source = Some(A1)
          /\ result.v.route[2].source = Nothing
    /\ (pc = "parsed" /\ text = StdoutText(EmptyCollectionsDoc)) =>
          /\ result.ok
          /\ \A k \in CollectionKeys : result.v[KeyField(k)] = <<>>

C5_Witness ==
    /\ Parsed
    /\ OnlyAbsences
    /\ AbsentKeys = {"l3_device", "inactive"}
    /\ result.ok
    /\ result.v.l3_device = Nothing
    /\ result.v.inactive = Nothing

\* The member name C9 gives for a field: the renamed ones as in the source, the
\* others under the data model's own spelling (l3Device, dnsMetric).
C9_StatedKey(f) ==
    CASE f = "ipv4_address" -> "ipv4-address"
      [] f = "ipv6_address" -> "ipv6-address"
      [] f = "ipv6_prefix" -> "ipv6-prefix"
      [] f = "ipv6_prefix_assignment" -> "ipv6-prefix-assignment"
      [] f = "dns_server" -> "dns-server"
      [] f = "dns_search" -> "dns-search"
      [] f = "l3_device" -> "l3Device"
      [] f = "dns_metric" -> "dnsMetric"
      [] OTHER -> f

C9_AmendedKey(f) ==
    CASE f = "ipv4_address" -> "ipv4-address"
      [] f = "ipv6_address" -> "ipv6-address"
      [] f = "ipv6_prefix" -> "ipv6-prefix"
      [] f = "ipv6_prefix_assignment" -> "ipv6-prefix-assignment"
      [] f = "dns_server" -> "dns-server"
      [] f = "dns_search" -> "dns-search"
      [] f = "l3_device" -> "l3_device"
      [] f = "dns_metric" -> "dns_metric"
      [] OTHER -> f

\* Field f of the parsed status holds what member k of the text carries, and
\* nothing when the text has no member k
ReadFrom(f, k) ==
    IF k \in DOMAIN text.doc.o
    THEN result.v[f] = De(InterfaceStatusType(f), text.doc.o[k]).v
    ELSE IsOption(InterfaceStatusType(f)) /\ result.v[f] = Nothing

\* C9 as stated: every field is read from the member C9 names for it
\* (l3Device from "l3Device", dnsMetric from "dnsMetric"), and a value under
\* any other name does not populate it.
C9_StatedMapping ==
    (Parsed /\ result.ok) => \A f \in StatusFieldNames : ReadFrom(f, C9_StatedKey(f))

\* C9 as amended: the seven renamed fields are read from their hyphenated
\* members, l3Device from "l3_device", dnsMetric from "dns_metric" and every
\* other field from the member of its own name; members of any other name are
\* ignored, so that a text which has the required members only under another
\* spelling fails to parse with a missing-field error.
C9_SourceMapping ==
    /\ (Parsed /\ result.ok) =>
          \A f \in StatusFieldNames : ReadFrom(f, C9_AmendedKey(f))
    /\ (Parsed /\ SubObject(text.doc.o)) =>
          LET required == {C9_AmendedKey(f) : f \in StatusFieldNames} \ OptionalKeys
          IN  IF required \subseteq DOMAIN text.doc.o
              THEN result.ok
              ELSE /\ ~result.ok
                   /\ result.err.e.err = "missing field"
                   /\ result.err.e.field \in required \ DOMAIN text.doc.o

C9_Witness ==
    /\ Parsed
    /\ result.ok
    /\ "l3Device" \in DOMAIN text.doc.o
    /\ "l3_device" \notin DOMAIN text.doc.o
    /\ result.v.l3_device = Nothing

\* C10: a status parsed from a wire text, written back and parsed again, has
\* the same value in every field; the written text has exactly the members of
\* the wire shape.
C10_RoundTrip ==
    /\ pc \in {"serialized", "reparsed"} =>
          /\ reser.json
          /\ DOMAIN reser.doc.o = WireKeys
    /\ pc = "reparsed" =>
          /\ reparsed.ok
          /\ \A f \in StatusFieldNames : reparsed.v[f] = result.v[f]
          /\ DOMAIN reparsed.v = DOMAIN result.v

C10_Witness ==
    /\ pc = "reparsed"
    /\ reparsed.ok
    /\ result.v.proto = Nothing
    /\ result.v.inactive = Nothing
    /\ Len(result.v.route) = 1
    /\ result.v.data.t = "obj"

\* The argument vector C7 describes
C7_ExpectedArgs(c) ==
    <<"-o", "StrictHostKeyChecking=no", "-o", "UserKnownHostsFile=/dev/null">>
        \o (IF c.private_key_path.some THEN <<"-i", c.private_key_path.v>> ELSE <<>>)
        \o <<c.username \o "@" \o c.host,
             "ubus call network.interface." \o c.interface \o " status">>

\* C7: the argument vector is the two host-key options, then -i and the key
\* path if and only if a key path is set, then "{username}@{host}", then the
\* remote command as the last argument; it is the same for every port.
C7_ArgumentList ==
    pc = "built" =>
        /\ args = C7_ExpectedArgs(config)
        /\ \A p \in DefaultPort..MaxPort : args = C7_ExpectedArgs([config EXCEPT !.port = p])
        /\ Len(args) = IF config.private_key_path.some THEN 8 ELSE 6
        /\ args[Len(args) - 1] = config.username \o "@" \o config.host
        /\ (\E i \in 1..Len(args) : args[i] = "-i") <=> config.private_key_path.some
        /\ \A i \in 1..Len(args) : args[i] = "-i" => i = 5 /\ i < Len(args) - 1

C7_Witness ==
    /\ pc = "built"
    /\ config.private_key_path = Some("/etc/key")
    /\ config.port # DefaultPort
    /\ args[5] = "-i"
    /\ args[7] = config.username \o "@" \o config.host

\* The string C8 describes
C8_Expected(u) ==
    LET d == u \div 86400
        h == (u % 86400) \div 3600
        m == (u % 3600) \div 60
        s == u % 60
        hms == ToString(h) \o "h " \o ToString(m) \o "m " \o ToString(s) \o "s"
    IN  IF u >= 86400 THEN ToString(d) \o "d " \o hms
        ELSE IF u >= 3600 THEN hms
        ELSE IF u >= 60 THEN ToString(m) \o "m " \o ToString(s) \o "s"
        ELSE ToString(s) \o "s"

\* What C8 says of the state after the call
C8_Formatted ==
    pc = "formatted" =>
        LET u == result.v.uptime
        IN  /\ formatted = C8_Expected(u)
            /\ hours(u) < 24 /\ minutes(u) < 60 /\ seconds(u) < 60
            /\ days(u) * 86400 + hours(u) * 3600 + minutes(u) * 60 + seconds(u) = u
            /\ u = 0 => formatted = "0s"
            /\ u = 65 => formatted = "1m 5s"
            /\ u = 3661 => formatted = "1h 1m 1s"
            /\ u = 90061 => formatted = "1d 1h 1m 1s"

\* C8: format_uptime prints the days, hours, minutes and seconds of the uptime
\* from the largest non-zero unit down, each component within its range and
\* all of them adding up to the uptime, and leaves the status as it was.
C8_FormatUptime == [](C8_Formatted) /\ [][result' = result]_vars

C8_Witness ==
    /\ pc = "formatted"
    /\ result.v.uptime = 90061
    /\ formatted = "1d 1h 1m 1s"

====
